---- MODULE Spec2Model ----
(***************************************************************************)
(* A model of mriqc's image-quality metrics (mriqc/qc/anatomical.py) and   *)
(* of the MRIQCWebAPI upload interface (mriqc/interfaces/webapi.py).       *)
(*                                                                         *)
(* Conventions.                                                            *)
(*  - A JSON value is a tagged record: Scalar(s) or Obj(f), f a function   *)
(*    from keys to JSON values (a Python dict).                            *)
(*  - A numpy array is a record [dtype, shape, v]: v is the flattened      *)
(*    (C order) sequence of its elements.  Real values are integers in     *)
(*    units of 1/100 (0.95 is 95, 1.0 is 100).                             *)
(*  - A call that raises is a result of kind "raised".                     *)
(***************************************************************************)
EXTENDS Integers, Sequences, FiniteSets, TLC

VARIABLES
    \* ---- webapi.py: one run of the UploadIQMs interface
    in_data,    \* the parsed content of the in_iqms JSON file
    strict,     \* inputs.strict
    email,      \* inputs.email ("None" when undefined)
    posts,      \* the HTTP POSTs issued so far, in order
    response,   \* what upload_qc_metrics gave back (or that it raised)
    iflog,      \* the records IFLOGGER received
    wpc,        \* "start", then how _run_interface ended
    \* ---- anatomical.py, _prepare_mask: a caller preparing a mask, then
    \* preparing the prepared mask again
    m_mask,     \* the caller's mask or segmentation array
    m_label,    \* the label argument
    m_erode,    \* the erode argument
    m_out,      \* the arrays returned so far, in order
    \* ---- anatomical.py, the metrics over partial volume maps: a caller
    \* that holds its inputs and calls the metrics one after the other
    p_img,      \* the caller's intensity volume
    p_lists,    \* the caller's PVM lists, by name (Python list objects)
    p_log,      \* the calls made so far: arguments before and after, result
    \* ---- anatomical.py, art_qi2: one call, step by step
    q_img,      \* the img argument
    q_airmask,  \* the airmask argument
    q_args,     \* erodemask, out_file and min_voxels
    q_fs,       \* the file system: what is at each absolute path
    q_pc,       \* where the call is
    q_out_file, \* the local out_file, once made absolute
    q_data,     \* the local data[data > 0]
    q_hist,     \* the local hist (<<>> until np.histogram ran)
    q_pdf,      \* the local pdf_fitted (<<>> until the fit ran)
    q_fit,      \* the locals max_pos, t2idx, and the record json_out
    q_ret       \* the value returned

webvars == <<in_data, strict, email, posts, response, iflog, wpc>>

maskvars == <<m_mask, m_label, m_erode, m_out>>

pvmvars == <<p_img, p_lists, p_log>>

qi2vars == <<q_img, q_airmask, q_args, q_fs, q_pc, q_out_file, q_data, q_hist, q_pdf,
             q_fit, q_ret>>

vars == <<webvars, maskvars, pvmvars, qi2vars>>

----------------------------------------------------------------------------
(* JSON values and Python dicts *)

Scalar(s) == [t |-> "s", s |-> s]

Obj(f) == [t |-> "o", o |-> f]

EmptyDict == [k \in {} |-> Scalar("")]

\* dict.update: d2's entries are added to d1, replacing equal keys.
DictUpdate(d1, d2) ==
    [k \in (DOMAIN d1) \cup (DOMAIN d2) |-> IF k \in DOMAIN d2 THEN d2[k] ELSE d1[k]]

\* {k: v for k, v in d.items() if k in keep}
DictFilter(d, keep) == [k \in (DOMAIN d) \cap keep |-> d[k]]

\* json.dumps: the document as its set of leaves, each the path of keys that
\* leads to a scalar and that scalar ("a.b = x").
RECURSIVE dumps(_)
dumps(v) ==
    IF v.t = "s"
    THEN {[path |-> <<>>, val |-> v.s]}
    ELSE UNION { { [path |-> <<k>> \o e.path, val |-> e.val] : e \in dumps(v.o[k]) }
                 : k \in DOMAIN v.o }

\* Every key that occurs in a JSON value, at any nesting level.
RECURSIVE KeysOf(_)
KeysOf(v) ==
    IF v.t = "s" THEN {}
    ELSE (DOMAIN v.o) \cup UNION { KeysOf(v.o[k]) : k \in DOMAIN v.o }

----------------------------------------------------------------------------
(* webapi.py *)

SECRET_KEY == "ZUsBaabr6PEbav5DKAHIODEnwpwC58oQTJF7KWvDBPUmBIVFFtwOd7lQBdz9r9ulJTR1BtxBDqDuY0owxK6LbLB1u1b64ZkIMd46"

META_WHITELIST ==
    {"ContrastBolusIngredient", "RepetitionTime", "TaskName", "Manufacturer",
     "ManufacturersModelName", "MagneticFieldStrength", "DeviceSerialNumber",
     "SoftwareVersions", "HardcopyDeviceSoftwareVersion", "ReceiveCoilName",
     "GradientSetType", "MRTransmitCoilSequence", "MatrixCoilMode",
     "CoilCombinationMethod", "PulseSequenceType", "PulseSequenceDetails",
     "NumberShots", "ParallelReductionFactorInPlane", "ParallelAcquisitionTechnique",
     "PartialFourier", "PartialFourierDirection", "PhaseEncodingDirection",
     "EffectiveEchoSpacing", "TotalReadoutTime",
     "EchoTime", "InversionTime", "SliceTiming", "SliceEncodingDirection",
     "NumberOfVolumesDiscardedByScanner", "NumberOfVolumesDiscardedByUser",
     "DelayTime", "FlipAngle", "MultibandAccelerationFactor", "Instructions",
     "TaskDescription", "CogAtlasID", "CogPOID", "InstitutionName",
     "InstitutionAddress", "ConversionSoftware", "ConversionSoftwareVersion",
     "md5sum", "modality", "mriqc_pred", "software", "subject_id", "version"}

\* Bunch(status_code=..., text=...): a local result, no HTTP exchange behind it.
Bunch(code, text) == [kind |-> "bunch", status_code |-> code, text |-> text]

\* A requests.Response.
HttpResponse(code, text) == [kind |-> "http", status_code |-> code, text |-> text]

\* The call did not return: exception exc left it.
Raised(exc) == [kind |-> "raised", status_code |-> 0, text |-> exc]

\* What the network does with a POST: the server answers, or the connection
\* fails (requests.ConnectionError).
NetOutcomes ==
    { [kind |-> "answer", status_code |-> c] : c \in {200, 201, 404, 500} }
    \cup { [kind |-> "connection_error", status_code |-> 0] }

\* in_data['metadata'].get('modality', 'None'): the value under the key, or the
\* string 'None'.
ModalityOf(meta) ==
    IF "modality" \in DOMAIN meta.o THEN meta.o["modality"] ELSE Scalar("None")

\* modality not in ('T1w', 'bold')
ModalityRejected(modality) ==
    ~(modality.t = "s" /\ modality.s \in {"T1w", "bold"})

\* The document POSTed: the top-level entries but 'metadata', then the
\* whitelisted entries of 'metadata', then those of 'settings' (a missing
\* 'settings' is a KeyError, passed over), then the email if there is one.
UploadPayload(d, mail) ==
    LET flat == [k \in (DOMAIN d) \ {"metadata"} |-> d[k]]
        withMeta == DictUpdate(flat, DictFilter(d["metadata"].o, META_WHITELIST))
        withSettings ==
            IF "settings" \in DOMAIN d
            THEN DictUpdate(withMeta, DictFilter(d["settings"].o, META_WHITELIST))
            ELSE withMeta
    IN  IF mail \notin {"None", ""}
        THEN DictUpdate(withSettings, [k \in {"email"} |-> Scalar(mail)])
        ELSE withSettings

\* upload_qc_metrics(in_iqms, addr, port, email) with the file's content d and
\* the network behaving as net: what it returns (result) and the POSTs it
\* issued (sent).
upload_qc_metrics(d, mail, net) ==
    IF "metadata" \notin DOMAIN d
    THEN [result |-> Raised("KeyError"), sent |-> <<>>]
    ELSE
      LET modality == ModalityOf(d["metadata"])
      IN  IF ModalityRejected(modality)
          THEN [result |-> Bunch(1, "image modality should be bold or T1w"),
                sent |-> <<>>]
          ELSE
            LET post == [endpoint |-> modality.s,
                         token |-> SECRET_KEY,
                         body |-> dumps(Obj(UploadPayload(d, mail)))]
            IN  IF net.kind = "connection_error"
                THEN [result |-> Bunch(1, "connection error"), sent |-> <<post>>]
                ELSE [result |-> HttpResponse(net.status_code, "server text"),
                      sent |-> <<post>>]

(* The IQM files the interface is run on. *)

MetaObjects ==
    { Obj(f) : f \in
        UNION { [ks -> {Scalar("x")}] : ks \in SUBSET {"RepetitionTime", "PatientName"} } }

WithModality(meta, m) == Obj(DictUpdate(meta.o, [k \in {"modality"} |-> Scalar(m)]))

Metadatas ==
    MetaObjects \cup { WithModality(m, v) : m \in MetaObjects, v \in {"T1w", "bold", "dwi"} }

Settingses ==
    { Obj(f) : f \in UNION { [ks -> {Scalar("y")}] : ks \in SUBSET {"TaskName", "WorkDir"} } }

Iqms == [k \in {"snr_total"} |-> Scalar("12.5")]

InputFiles ==
    LET withMeta == {Iqms} \cup { DictUpdate(Iqms, [k \in {"metadata"} |-> m]) : m \in Metadatas }
    IN  withMeta \cup
        { DictUpdate(d, [k \in {"settings"} |-> s]) : d \in withMeta, s \in Settingses }

Emails == {"None", "", "me@lab.org"}

WebIdle ==
    /\ in_data = Iqms
    /\ strict = FALSE
    /\ email = "None"
    /\ posts = <<>>
    /\ response = Raised("not called")
    /\ iflog = <<>>
    /\ wpc = "idle"

WebInit ==
    /\ in_data \in InputFiles
    /\ strict \in BOOLEAN
    /\ email \in Emails
    /\ posts = <<>>
    /\ response = Raised("not called")
    /\ iflog = <<>>
    /\ wpc = "start"

\* UploadIQMs._run_interface: the upload, then the verdict on its status.
_run_interface(net) ==
    /\ wpc = "start"
    /\ LET up == upload_qc_metrics(in_data, email, net)
       IN  /\ response' = up.result
           /\ posts' = posts \o up.sent
           /\ IF up.result.kind = "raised"
              THEN /\ wpc' = "fatal"
                   /\ iflog' = iflog
              ELSE IF up.result.status_code = 201
              THEN /\ wpc' = "completed"
                   /\ iflog' = Append(iflog, "info")
              ELSE /\ iflog' = Append(iflog, "warn")
                   /\ wpc' = IF strict THEN "fatal" ELSE "completed"
    /\ UNCHANGED <<in_data, strict, email>>
    /\ UNCHANGED <<maskvars, pvmvars, qi2vars>>

WebNext == \E net \in NetOutcomes : _run_interface(net)

----------------------------------------------------------------------------
(* numpy arrays *)

\* A volume of the model: 3 x 3 x 3 voxels, flattened in C order.
VolShape == <<3, 3, 3>>

Size(shape) == shape[1] * shape[2] * shape[3]

Array(dtype, shape, v) == [dtype |-> dtype, shape |-> shape, v |-> v]

\* The voxel (x, y, z) of flat index i (from 1), and back.
Coord(shape, i) ==
    LET n == i - 1
    IN  <<n \div (shape[2] * shape[3]), (n \div shape[3]) % shape[2], n % shape[3]>>

Index(shape, c) == (c[1] * shape[2] + c[2]) * shape[3] + c[3] + 1

InBounds(shape, c) == \A a \in 1..3 : c[a] >= 0 /\ c[a] < shape[a]

Abs(n) == IF n < 0 THEN -n ELSE n

\* scipy.ndimage.generate_binary_structure(3, 2): the voxel, its 6 face and
\* its 12 edge neighbours, as offsets.
generate_binary_structure ==
    { d \in {-1, 0, 1} \X {-1, 0, 1} \X {-1, 0, 1} : Abs(d[1]) + Abs(d[2]) + Abs(d[3]) <= 2 }

Shift(c, d) == <<c[1] + d[1], c[2] + d[2], c[3] + d[3]>>

\* For each voxel of a volume, the flat indices of the structure's voxels
\* around it that lie inside the volume, and whether all of them do.
Neighbours(shape) ==
    [i \in 1..Size(shape) |->
        { Index(shape, Shift(Coord(shape, i), d)) :
            d \in { e \in generate_binary_structure : InBounds(shape, Shift(Coord(shape, i), e)) } }]

Interior(shape) ==
    { i \in 1..Size(shape) :
        \A d \in generate_binary_structure : InBounds(shape, Shift(Coord(shape, i), d)) }

Shapes == {VolShape}

NeighbourTable == [s \in Shapes |-> Neighbours(s)]

InteriorTable == [s \in Shapes |-> Interior(s)]

\* scipy.ndimage.binary_erosion(input, structure): a voxel stays when every
\* voxel of the structure around it is non-zero; outside the volume counts as
\* zero (border_value=0).  The result is boolean (0 or 1).
binary_erosion(shape, v) ==
    [i \in 1..Size(shape) |->
        IF i \in InteriorTable[shape] /\ \A j \in NeighbourTable[shape][i] : v[j] # 0
        THEN 1 ELSE 0]

\* scipy.ndimage.binary_dilation(input, structure): a voxel is set when some
\* voxel of the (symmetric) structure around it is non-zero.
binary_dilation(shape, v) ==
    [i \in 1..Size(shape) |->
        IF \E j \in NeighbourTable[shape][i] : v[j] # 0 THEN 1 ELSE 0]

\* scipy.ndimage.binary_opening: an erosion, then a dilation.
binary_opening(shape, v) == binary_dilation(shape, binary_erosion(shape, v))

----------------------------------------------------------------------------
(* anatomical.py: _prepare_mask *)

FSL_FAST_LABELS == [csf |-> 1, gm |-> 2, wm |-> 3, bg |-> 0]

\* Real values are in units of 1/100: the 1.0 and the .95 of _prepare_mask.
ONE == 100

MASK_THRESHOLD == 95

\* A label argument: a number, or a tissue name.
NumLabel(n) == [named |-> FALSE, name |-> "", id |-> n]

NamedLabel(k) == [named |-> TRUE, name |-> k, id |-> 0]

\* if isinstance(label, string_types): label = FSL_FAST_LABELS[label]
ResolveLabel(label) == IF label.named THEN FSL_FAST_LABELS[label.name] ELSE label.id

\* A plausible slip: the comparison inverted, computed in one pass.
LabelSelectInverted(v, lid) == [i \in DOMAIN v |-> IF v[i] # lid THEN 1 ELSE 0]

\* fgmask[fgmask != label] = 0, and then, on the array so changed,
\* fgmask[fgmask == label] = 1.
LabelSelect(v, lid) ==
    LET zeroed == [i \in DOMAIN v |-> IF v[i] # lid THEN 0 ELSE v[i]]
    IN  [i \in DOMAIN v |-> IF zeroed[i] = lid THEN 1 ELSE zeroed[i]]

\* fgmask[fgmask > .95] = 1., and then fgmask[fgmask < 1.] = 0.
Threshold(v) ==
    LET raised == [i \in DOMAIN v |-> IF v[i] > MASK_THRESHOLD THEN ONE ELSE v[i]]
    IN  [i \in DOMAIN v |-> IF raised[i] < ONE THEN 0 ELSE raised[i]]

IsIntegerDtype(dtype) == dtype \in {"int", "uint8"}

\* _prepare_mask(mask, label, erode): a new array, the argument is copied first.
_prepare_mask(mask, label, erode) ==
    LET fgmask ==
            IF IsIntegerDtype(mask.dtype)
            THEN LabelSelect(mask.v, ResolveLabel(label))
            ELSE Threshold(mask.v)
    IN  IF erode
        THEN Array("uint8", mask.shape, binary_opening(mask.shape, fgmask))
        ELSE Array(mask.dtype, mask.shape, fgmask)

(* The masks a caller prepares: the first NFree voxels take every value, the
   rest of the volume is filled with one value. *)

NFree == 3

MaskValues(dtype) == IF dtype = "int" THEN 0..3 ELSE {0, MASK_THRESHOLD, MASK_THRESHOLD + 1, ONE}

Filled(free, fill) ==
    [i \in 1..Size(VolShape) |-> IF i <= Len(free) THEN free[i] ELSE fill]

Masks(dtype) ==
    { Array(dtype, VolShape, Filled(free, fill)) :
        free \in [1..NFree -> MaskValues(dtype)], fill \in {0, IF dtype = "int" THEN 1 ELSE ONE} }

Labels == { NumLabel(n) : n \in 0..3 } \cup { NamedLabel(k) : k \in DOMAIN FSL_FAST_LABELS }

MaskIdle ==
    /\ m_mask = Array("int", VolShape, Filled(<<>>, 0))
    /\ m_label = NumLabel(1)
    /\ m_erode = FALSE
    /\ m_out = <<>>

MaskInit ==
    /\ m_mask \in Masks("int") \cup Masks("float")
    /\ m_label \in Labels
    /\ m_erode \in BOOLEAN
    /\ m_out = <<>>

\* The caller prepares its mask.
PrepareMask ==
    /\ m_out = <<>>
    /\ m_out' = <<_prepare_mask(m_mask, m_label, m_erode)>>
    /\ UNCHANGED <<m_mask, m_label, m_erode>>
    /\ UNCHANGED <<webvars, pvmvars, qi2vars>>

\* The caller prepares the mask it got back, with the same label and erode.
PrepareMaskAgain ==
    /\ Len(m_out) = 1
    /\ m_out' = Append(m_out, _prepare_mask(m_out[1], m_label, m_erode))
    /\ UNCHANGED <<m_mask, m_label, m_erode>>
    /\ UNCHANGED <<webvars, pvmvars, qi2vars>>

MaskNext == PrepareMask \/ PrepareMaskAgain

----------------------------------------------------------------------------
(* anatomical.py: volume_fraction, rpve, summary_stats *)

\* The volumes of the PVM metrics: 2 x 2 x 2 voxels.
PvmShape == <<2, 2, 2>>

\* pvms[lid] > 0.5
HALF == 50

RECURSIVE SeqSum(_)
SeqSum(s) == IF s = <<>> THEN 0 ELSE Head(s) + SeqSum(Tail(s))

\* a[mask] for a boolean mask given as the set of its true indices: the
\* selected elements, in index order (a copy).
Take(v, keep) ==
    LET F[i \in 0..Len(v)] ==
            IF i = 0 THEN <<>>
            ELSE IF i \in keep THEN Append(F[i - 1], v[i]) ELSE F[i - 1]
    IN  F[Len(v)]

\* The k-th smallest element of s, k from 0.
Kth(s, k) ==
    CHOOSE x \in { s[i] : i \in DOMAIN s } :
        /\ Cardinality({ i \in DOMAIN s : s[i] < x }) <= k
        /\ k < Cardinality({ i \in DOMAIN s : s[i] <= x })

\* 100 * np.percentile(s, q) for a non-empty s: linear interpolation between
\* the two order statistics around position (n - 1) * q / 100.
Percentile100(s, q) ==
    LET pos == (Len(s) - 1) * q
        lo == pos \div 100
        r == pos % 100
        a == Kth(s, lo)
        b == IF r = 0 THEN a ELSE Kth(s, lo + 1)
    IN  100 * a + r * (b - a)

\* A pvms argument: a Python list of maps, or one array.
PvList(maps) == [kind |-> "list", maps |-> maps]

PvArray(a) == [kind |-> "array", maps |-> <<a>>]

\* np.squeeze(np.array(pvms)).ndim: the dimensions of the stacked array that
\* are longer than 1.
SqueezedNdim(pv) ==
    LET shape == (IF pv.kind = "list" THEN <<Len(pv.maps)>> ELSE <<>>) \o pv.maps[1].shape
    IN  Cardinality({ j \in DOMAIN shape : shape[j] # 1 })

\* np.array(pvms).sum(axis=0): the voxelwise sum of the maps.
SumMaps(maps) ==
    Array("float", maps[1].shape,
          [i \in DOMAIN maps[1].v |-> SeqSum([j \in DOMAIN maps |-> maps[j].v[i]])])

\* np.ones_like(a) - a
Complement(a) == Array("float", a.shape, [i \in DOMAIN a.v |-> ONE - a.v[i]])

\* The record summary_stats computes over img[mask]: the voxels selected, their
\* number and their sum (the mean is sum / n; stdv, p95, p05 and kurtosis are
\* functions of the selection too).
TissueStats(img, pvm) ==
    LET sel == Take(img.v, { i \in DOMAIN pvm.v : pvm.v[i] > HALF })
    IN  [n |-> Len(sel), sum |-> SeqSum(sel), sel |-> sel]

NoBgdata == Array("none", PvmShape, <<>>)

\* summary_stats(img, pvms, bgdata): what it returns (ret) and the state it
\* leaves the caller's pvms object in (maps).
summary_stats(img, pv, bgdata) ==
    LET dims == SqueezedNdim(pv)
        \* dims == 4: pvms.insert(0, ...) on the caller's list;
        \* dims == 3: pvms is rebound to a new two-element list.
        stacked ==
            IF dims = 4 THEN <<SumMaps(pv.maps)>> \o pv.maps
            ELSE <<Complement(pv.maps[1]), pv.maps[1]>>
        \* pvms[0] = bgdata, on the same list object
        local == IF bgdata.dtype # "none" THEN [stacked EXCEPT ![1] = bgdata] ELSE stacked
        callers == IF dims = 4 THEN local ELSE pv.maps
        labels ==
            IF Len(local) = 4 THEN FSL_FAST_LABELS
            ELSE [bg |-> 0, fg |-> 1]
    IN  IF dims \notin {3, 4}
        THEN [ret |-> [kind |-> "raised", exc |-> "RuntimeError"], maps |-> pv.maps]
        ELSE IF Len(local) \notin {2, 4}
        THEN [ret |-> [kind |-> "raised", exc |-> "UnboundLocalError"], maps |-> callers]
        ELSE [ret |-> [kind |-> "ok",
                       out |-> [k \in DOMAIN labels |-> TissueStats(img, local[labels[k] + 1])]],
              maps |-> callers]

\* The tissues volume_fraction and rpve go through: the labels but 0.
Tissues == { k \in DOMAIN FSL_FAST_LABELS : FSL_FAST_LABELS[k] # 0 }

\* volume_fraction(pvms).  A fraction is the pair sum / total; total = 0 makes
\* each of them 0/0, a NaN.
volume_fraction(maps) ==
    IF \E k \in Tissues : FSL_FAST_LABELS[k] > Len(maps)
    THEN [kind |-> "raised", exc |-> "IndexError"]
    ELSE LET tissue_vfs == [k \in Tissues |-> SeqSum(maps[FSL_FAST_LABELS[k]].v)]
             total == SeqSum([j \in 1..3 |-> SeqSum(maps[j].v)])
         IN  [kind |-> "ok",
              out |-> [k \in Tissues |-> [num |-> tissue_vfs[k], den |-> total]]]

\* One tissue of rpve: the PVM values inside the tissue's region (a copy),
\* those outside [0, 1) zeroed, then those outside the 2nd..98th percentiles
\* of the positive ones zeroed, and the rest summed.
RpveOfTissue(pvm, seg, lid) ==
    LET region == Take(pvm.v, { i \in DOMAIN seg.v : seg.v[i] = lid })
        clipped == [i \in DOMAIN region |->
                       IF region[i] < 0 \/ region[i] >= ONE THEN 0 ELSE region[i]]
        positive == Take(clipped, { i \in DOMAIN clipped : clipped[i] > 0 })
        upth == Percentile100(positive, 98)
        loth == Percentile100(positive, 2)
        trimmed == [i \in DOMAIN clipped |->
                       IF 100 * clipped[i] < loth \/ 100 * clipped[i] > upth
                       THEN 0 ELSE clipped[i]]
    IN  [empty |-> positive = <<>>,
         sum |-> IF positive = <<>> THEN 0 ELSE SeqSum(trimmed)]

\* rpve(pvms, seg).  np.percentile of an empty selection raises in some numpy
\* releases and gives NaN in others (emptyRaises); with NaN thresholds nothing
\* is trimmed and the empty sum is 0.
rpve(maps, seg, emptyRaises) ==
    IF \E k \in Tissues : FSL_FAST_LABELS[k] > Len(maps)
    THEN [kind |-> "raised", exc |-> "IndexError"]
    ELSE LET pvfs == [k \in Tissues |->
                         RpveOfTissue(maps[FSL_FAST_LABELS[k]], seg, FSL_FAST_LABELS[k])]
         IN  IF emptyRaises /\ \E k \in Tissues : pvfs[k].empty
             THEN [kind |-> "raised", exc |-> "IndexError"]
             ELSE [kind |-> "ok", out |-> [k \in Tissues |-> pvfs[k].sum]]

(* The caller's inputs: per free voxel, the tissue fractions are any triple of
   PvmValues that sums to at most 1; the other voxels hold no tissue. *)

NPvmVox == 2

MaxCalls == 2

PvmValues == {0, 40, ONE}

VoxelTriples == { t \in PvmValues \X PvmValues \X PvmValues : t[1] + t[2] + t[3] <= ONE }

PadTo(free, n, fill) == [i \in 1..n |-> IF i <= Len(free) THEN free[i] ELSE fill]

TissueLists ==
    { [j \in 1..3 |->
          Array("float", PvmShape, PadTo([i \in 1..NPvmVox |-> f[i][j]], Size(PvmShape), 0))] :
      f \in [1..NPvmVox -> VoxelTriples] }

\* The same data with the background map given explicitly, in front.
WithBackground(maps) == <<Complement(SumMaps(maps))>> \o maps

Image == Array("float", PvmShape, [i \in 1..Size(PvmShape) |-> 10 * i])

BgData == Array("uint8", PvmShape, [i \in 1..Size(PvmShape) |-> IF i > 6 THEN 1 ELSE 0])

Segmentations ==
    { Array("int", PvmShape, PadTo(free, Size(PvmShape), 0)) :
        free \in {<<1, 2>>, <<3, 3>>, <<1, 1>>} }

ListNames == {"tissue", "withbg"}

PvmIdle ==
    /\ p_img = Image
    /\ p_lists = [l \in ListNames |-> <<>>]
    /\ p_log = <<>>

PvmInit ==
    /\ p_img = Image
    /\ \E maps \in TissueLists :
          p_lists = [l \in ListNames |-> IF l = "tissue" THEN maps ELSE WithBackground(maps)]
    /\ p_log = <<>>

\* A call of the log: the function, which of the caller's objects it was given
\* (arg), whether bgdata was given, the object before and after, the result.
Call(fn, arg, bg, before, after, ret) ==
    [fn |-> fn, arg |-> arg, bgdata |-> bg, before |-> before, after |-> after, ret |-> ret]

\* volume_fraction(pvms) on one of the caller's lists.
CallVolumeFraction(l) ==
    /\ Len(p_log) < MaxCalls
    /\ p_log' = Append(p_log, Call("volume_fraction", l, FALSE, p_lists[l], p_lists[l],
                                   volume_fraction(p_lists[l])))
    /\ UNCHANGED <<p_img, p_lists>>
    /\ UNCHANGED <<webvars, maskvars, qi2vars>>

\* rpve(pvms, seg) on one of the caller's lists.
CallRpve(l, seg, emptyRaises) ==
    /\ Len(p_log) < MaxCalls
    /\ p_log' = Append(p_log, Call("rpve", l, FALSE, p_lists[l], p_lists[l],
                                   rpve(p_lists[l], seg, emptyRaises)))
    /\ UNCHANGED <<p_img, p_lists>>
    /\ UNCHANGED <<webvars, maskvars, qi2vars>>

\* summary_stats(img, pvms, bgdata) on one of the caller's lists.
CallSummaryStats(l, bgdata) ==
    /\ Len(p_log) < MaxCalls
    /\ LET r == summary_stats(p_img, PvList(p_lists[l]), bgdata)
       IN  /\ p_lists' = [p_lists EXCEPT ![l] = r.maps]
           /\ p_log' = Append(p_log, Call("summary_stats", l, bgdata.dtype # "none",
                                       p_lists[l], r.maps, r.ret))
    /\ UNCHANGED p_img
    /\ UNCHANGED <<webvars, maskvars, qi2vars>>

\* summary_stats(img, pvm) on one map of the caller's tissue list.
CallSummaryStatsOfMap(j) ==
    /\ Len(p_log) < MaxCalls
    /\ j <= Len(p_lists["tissue"])
    /\ LET r == summary_stats(p_img, PvArray(p_lists["tissue"][j]), NoBgdata)
       IN  p_log' = Append(p_log, Call("summary_stats", "map", FALSE,
                                       <<p_lists["tissue"][j]>>, r.maps, r.ret))
    /\ UNCHANGED <<p_img, p_lists>>
    /\ UNCHANGED <<webvars, maskvars, qi2vars>>

PvmNext ==
    \/ \E l \in ListNames : CallVolumeFraction(l)
    \/ \E l \in ListNames, seg \in Segmentations, e \in BOOLEAN : CallRpve(l, seg, e)
    \/ \E l \in ListNames, bg \in {NoBgdata, BgData} : CallSummaryStats(l, bg)
    \/ \E j \in 1..3 : CallSummaryStatsOfMap(j)

----------------------------------------------------------------------------
(* anatomical.py: art_qi2 *)

\* A file: whether it exists, and what it holds ("" for an empty file, "old"
\* for what an earlier run left, "record" for the JSON record of this call).
NoFile == [exists |-> FALSE, content |-> ""]

File(content) == [exists |-> TRUE, content |-> content]

\* op.abspath: a relative name is joined to the working directory.
abspath ==
    [f \in {"qi2_fitting.txt", "/scratch/gone/qi2.txt"} |->
        IF f = "qi2_fitting.txt" THEN "/cwd/qi2_fitting.txt" ELSE f]

OutFiles == DOMAIN abspath

Paths == { abspath[f] : f \in OutFiles }

\* The paths whose directory exists: a file can be opened for writing there.
Writable == {"/cwd/qi2_fitting.txt"}

\* A plausible slip: the file is not created up front.
TouchSkipped(fs, path) == fs

\* open(out_file, 'a').close(): the file is created when it is not there, and
\* left as it is when it is.
Touch(fs, path) == IF fs[path].exists THEN fs ELSE [fs EXCEPT ![path] = File("")]

\* with open(out_file, 'w') as ofd: json.dump(json_out, ofd)
WriteRecord(fs, path) == [fs EXCEPT ![path] = File("record")]

\* A real number as the fraction num / den (den > 0).
Frac(num, den) == [num |-> num, den |-> den]

\* np.argmax(hist): the first position (from 0) of the largest value.
argmax(hist) ==
    (CHOOSE i \in DOMAIN hist :
        /\ \A j \in DOMAIN hist : hist[j] <= hist[i]
        /\ \A j \in 1..(i - 1) : hist[j] < hist[i]) - 1

\* A plausible slip: the scan for the crossing starts at the first bin, not
\* after the mode.
CutoffIndexFromFirstBin(hist, max_pos) ==
    LET below == { i \in 0..(Len(hist) - 1) : 2 * hist[i + 1] < hist[max_pos + 1] }
    IN  IF below = {} THEN 0 ELSE CHOOSE i \in below : \A j \in below : i <= j

\* t2idx: 0, unless some bin i in max_pos + 1 .. len - 1 has hist[i] < ihw,
\* ihw = 0.5 * hist[max_pos]; then the first such i.  Positions count from 0.
CutoffIndex(hist, max_pos) ==
    LET below == { i \in (max_pos + 1)..(Len(hist) - 1) : 2 * hist[i + 1] < hist[max_pos + 1] }
    IN  IF below = {} THEN 0 ELSE CHOOSE i \in below : \A j \in below : i <= j

\* gof = 1.0 if gof > 1.0 else gof; gof = 0.0 if gof < 0.0 else gof
Clip(gof) ==
    IF gof.num > gof.den THEN Frac(1, 1)
    ELSE IF gof.num < 0 THEN Frac(0, 1)
    ELSE gof

\* np.abs(hist[t2idx:] - pdf_fitted[t2idx:]).sum() / len(pdf_fitted[t2idx:])
GoodnessOfFit(hist, pdf, t2idx) ==
    Frac(SeqSum([i \in 1..(Len(hist) - t2idx) |-> Abs(hist[i + t2idx] - pdf[i + t2idx])]),
         Len(pdf) - t2idx)

\* The air voxels art_qi2 fits: img[airmask > 0], and of these the positive.
AirData(img, airmask) ==
    LET data == Take(img.v, { i \in DOMAIN airmask.v : airmask.v[i] > 0 })
    IN  Take(data, { i \in DOMAIN data : data[i] > 0 })

(* The calls made. *)

MaxBins == 3

\* What np.histogram(..., density=True, bins='doane') can give: a density per
\* bin, not all zero (the positive data lies in the range).
Histograms ==
    UNION { { h \in [1..n -> 0..2] : \E i \in 1..n : h[i] > 0 } : n \in 1..MaxBins }

\* What chi.pdf can give at n bin centers.
FittedPdfs(n) == [1..n -> {0, 3}]

\* A volume that holds c everywhere but at the voxels of holes, where it holds 0.
Volume(dtype, c, holes) ==
    Array(dtype, VolShape, [i \in 1..Size(VolShape) |-> IF i \in holes THEN 0 ELSE c])

\* Air intensities: positive everywhere, or zero at the central voxel.
Qi2Images == { Volume("float", 5, {}), Volume("float", 5, {14}) }

\* Air masks: the whole volume, the volume but one voxel next to the central
\* one (the erosion then leaves nothing), and no voxel at all.
Qi2Masks == { Volume("uint8", 1, holes) : holes \in { {}, {2}, 1..Size(VolShape) } }

Qi2MinVoxels == {0, 2, 27}

Qi2Files == [Paths -> {NoFile, File("old")}]

Qi2Idle ==
    /\ q_img = Volume("float", 0, {})
    /\ q_airmask = Volume("uint8", 0, {})
    /\ q_args = [erodemask |-> FALSE, out_file |-> "qi2_fitting.txt", min_voxels |-> 0]
    /\ q_fs = [f \in Paths |-> NoFile]
    /\ q_pc = "idle"
    /\ q_out_file = ""
    /\ q_data = <<>>
    /\ q_hist = <<>>
    /\ q_pdf = <<>>
    /\ q_fit = [max_pos |-> 0, t2idx |-> 0, x_cutoff |-> 0, gof |-> Frac(0, 1)]
    /\ q_ret = [gof |-> Frac(0, 1), path |-> ""]

Qi2Init ==
    /\ q_img \in Qi2Images
    /\ q_airmask \in Qi2Masks
    /\ q_args \in [erodemask : BOOLEAN, out_file : OutFiles, min_voxels : Qi2MinVoxels]
    /\ q_fs \in { fs \in Qi2Files : \A f \in Paths \ Writable : ~fs[f].exists }
    /\ q_pc = "open"
    /\ q_out_file = ""
    /\ q_data = <<>>
    /\ q_hist = <<>>
    /\ q_pdf = <<>>
    /\ q_fit = [max_pos |-> 0, t2idx |-> 0, x_cutoff |-> 0, gof |-> Frac(0, 1)]
    /\ q_ret = [gof |-> Frac(0, 1), path |-> ""]

\* out_file = op.abspath(out_file); open(out_file, 'a').close()
Qi2Open ==
    /\ q_pc = "open"
    /\ q_out_file' = abspath[q_args.out_file]
    /\ IF abspath[q_args.out_file] \in Writable
       THEN /\ q_fs' = Touch(q_fs, abspath[q_args.out_file])
            /\ q_pc' = "select"
       ELSE /\ q_fs' = q_fs
            /\ q_pc' = "raised"
    /\ UNCHANGED <<q_img, q_airmask, q_args, q_data, q_hist, q_pdf, q_fit, q_ret>>
    /\ UNCHANGED <<webvars, maskvars, pvmvars>>

\* The erosion when asked for, the selection of the air voxels, and the
\* return of 0.0 when fewer than min_voxels of them are positive.
Qi2Select ==
    /\ q_pc = "select"
    /\ LET airmask ==
               IF q_args.erodemask
               THEN Array("uint8", q_airmask.shape, binary_erosion(q_airmask.shape, q_airmask.v))
               ELSE q_airmask
           data == AirData(q_img, airmask)
       IN  /\ q_data' = data
           /\ IF Len(data) < q_args.min_voxels
              THEN /\ q_ret' = [gof |-> Frac(0, 1), path |-> q_out_file]
                   /\ q_pc' = "returned"
              ELSE /\ q_ret' = q_ret
                   /\ q_pc' = "histogram"
    /\ UNCHANGED <<q_img, q_airmask, q_args, q_fs, q_out_file, q_hist, q_pdf, q_fit>>
    /\ UNCHANGED <<webvars, maskvars, pvmvars>>

\* np.percentile and np.histogram over the positive data (with none, the
\* range is not finite and the call raises), then max_pos.
Qi2Histogram(hist) ==
    /\ q_pc = "histogram"
    /\ IF q_data = <<>>
       THEN /\ q_pc' = "raised"
            /\ UNCHANGED <<q_hist, q_fit>>
       ELSE /\ q_hist' = hist
            /\ q_fit' = [q_fit EXCEPT !.max_pos = argmax(hist)]
            /\ q_pc' = "fit"
    /\ UNCHANGED <<q_img, q_airmask, q_args, q_fs, q_out_file, q_data, q_pdf, q_ret>>
    /\ UNCHANGED <<webvars, maskvars, pvmvars>>

\* chi.fit, and chi.pdf at the bin centers.
Qi2Fit(pdf) ==
    /\ q_pc = "fit"
    /\ q_pdf' = pdf
    /\ q_pc' = "gof"
    /\ UNCHANGED <<q_img, q_airmask, q_args, q_fs, q_out_file, q_data, q_hist, q_fit, q_ret>>
    /\ UNCHANGED <<webvars, maskvars, pvmvars>>

\* The cutoff, the goodness of fit, the record written, the return.  The bin
\* centers are the left bin edges, here 0, 1, 2, ... bin widths.
Qi2Finish ==
    /\ q_pc = "gof"
    /\ LET t2idx == CutoffIndex(q_hist, q_fit.max_pos)
           gof == Clip(GoodnessOfFit(q_hist, q_pdf, t2idx))
       IN  /\ q_fit' = [q_fit EXCEPT !.t2idx = t2idx, !.x_cutoff = t2idx, !.gof = gof]
           /\ q_ret' = [gof |-> gof, path |-> q_out_file]
    /\ q_fs' = WriteRecord(q_fs, q_out_file)
    /\ q_pc' = "returned"
    /\ UNCHANGED <<q_img, q_airmask, q_args, q_out_file, q_data, q_hist, q_pdf>>
    /\ UNCHANGED <<webvars, maskvars, pvmvars>>

Qi2Next ==
    \/ Qi2Open
    \/ Qi2Select
    \/ \E hist \in Histograms : Qi2Histogram(hist)
    \/ \E pdf \in FittedPdfs(Len(q_hist)) : Qi2Fit(pdf)
    \/ Qi2Finish

----------------------------------------------------------------------------
(* Specifications *)

InitUpload == WebInit /\ MaskIdle /\ PvmIdle /\ Qi2Idle

SpecUpload == InitUpload /\ [][WebNext]_vars

InitMask == MaskInit /\ WebIdle /\ PvmIdle /\ Qi2Idle

SpecMask == InitMask /\ [][MaskNext]_vars

InitPvm == PvmInit /\ WebIdle /\ MaskIdle /\ Qi2Idle

SpecPvm == InitPvm /\ [][PvmNext]_vars

InitQi2 == Qi2Init /\ WebIdle /\ MaskIdle /\ PvmIdle

SpecQi2 == InitQi2 /\ [][Qi2Next]_vars

----------------------------------------------------------------------------
(* The claims *)

Ran == wpc \in {"completed", "fatal"}

\* metadata.modality is not exactly "T1w" or "bold", or is absent.
ModalityAbsentOrWrong(d) ==
    \/ "metadata" \notin DOMAIN d
    \/ ModalityRejected(ModalityOf(d["metadata"]))

\* C1: an input whose metadata.modality is not exactly "T1w" or "bold" (or is
\* absent) makes upload_qc_metrics issue no POST and return a local error
\* result (status_code 1, with a message) instead of raising; a POST is issued
\* at most once, and only when the modality check passed.
C1_RejectedModalityIsLocalError ==
    Ran =>
        /\ ModalityAbsentOrWrong(in_data) =>
              /\ posts = <<>>
              /\ response.kind = "bunch"
              /\ response.status_code = 1
              /\ response.text # ""
        /\ Len(posts) <= 1
        /\ posts # <<>> => ~ModalityAbsentOrWrong(in_data)

\* The keys found, at any nesting level, in the input's metadata and settings
\* sub-objects.
SubObjectKeys(d) ==
    UNION { KeysOf(d[k]) : k \in (DOMAIN d) \cap {"metadata", "settings"} }

\* C2: in the body POSTed, every entry that comes from the input's metadata or
\* settings sub-object has a key of META_WHITELIST, at any nesting level.
C2_OnlyWhitelistedEntriesPosted ==
    \A n \in DOMAIN posts : \A e \in posts[n].body : \A j \in DOMAIN e.path :
        e.path[j] \in SubObjectKeys(in_data) => e.path[j] \in META_WHITELIST

\* C3: _run_interface ends in a fatal error if and only if strict is true and
\* the upload result's status is not 201; with strict false it completes
\* normally whatever the upload's outcome, which reaches it as a result object
\* and never as an exception.
C3_FatalIffStrictAndNot201 ==
    Ran =>
        /\ wpc = "fatal" <=> (strict /\ response.status_code # 201)
        /\ ~strict => (wpc = "completed" /\ response.kind \in {"http", "bunch"})

\* The positive air voxels art_qi2 is left with: those of the air mask, eroded
\* when erodemask is set, where the image is positive.
PositiveAirVoxels ==
    LET kept == IF q_args.erodemask
                THEN binary_erosion(q_airmask.shape, q_airmask.v)
                ELSE q_airmask.v
    IN  { i \in DOMAIN q_img.v : kept[i] > 0 /\ q_img.v[i] > 0 }

FewAirVoxels == Cardinality(PositiveAirVoxels) < q_args.min_voxels

\* C4: whenever art_qi2 returns, a file exists at the path it returns (the
\* absolute out_file); and when the air mask (eroded or not) selects fewer than
\* min_voxels positive intensities it returns exactly (0.0, path), without
\* having run the histogram or the fit and without writing a record.
C4_FileExistsOnEveryReturn ==
    q_pc = "returned" =>
        /\ q_ret.path = abspath[q_args.out_file]
        /\ q_fs[q_ret.path].exists
        /\ FewAirVoxels =>
              /\ q_ret.gof = Frac(0, 1)
              /\ q_hist = <<>>
              /\ q_pdf = <<>>
              /\ q_fs[q_ret.path].content # "record"

\* A short-circuit return after an erosion, the file created empty by the call.
C4_ShortCircuitCreatesFile ==
    /\ q_pc = "returned"
    /\ FewAirVoxels
    /\ q_args.erodemask
    /\ q_ret.gof = Frac(0, 1)
    /\ q_fs[q_ret.path] = File("")

SummaryStatsKeys == {"bg", "csf", "gm", "wm"}

\* C5: summary_stats accepts a 3-element tissue list and a 4-element list with
\* the background map (the complement of the tissue maps) in front; on the
\* same data both calls return normally, with records for bg, csf, gm and wm,
\* each over the voxels where that tissue's PVM is above 0.5, and so equal.
C5_ThreeAndFourElementListsAgree ==
    \A i, j \in DOMAIN p_log :
        LET a == p_log[i]
            b == p_log[j]
        IN  ( /\ a.fn = "summary_stats" /\ b.fn = "summary_stats"
              /\ ~a.bgdata /\ ~b.bgdata
              /\ a.arg = "tissue" /\ Len(a.before) = 3
              /\ b.arg = "withbg" /\ b.before = WithBackground(a.before) )
            => /\ a.ret.kind = "ok" /\ b.ret.kind = "ok"
               /\ DOMAIN a.ret.out = SummaryStatsKeys
               /\ DOMAIN b.ret.out = SummaryStatsKeys
               /\ \A k \in SummaryStatsKeys :
                     /\ a.ret.out[k] = b.ret.out[k]
                     /\ a.ret.out[k] = TissueStats(p_img, b.before[FSL_FAST_LABELS[k] + 1])

\* C6: no call changes an argument the caller supplied: after each call the
\* list given has the length and the elements it had before, and the image is
\* the one the caller holds.
C6_CallsLeaveArgumentsUnchanged ==
    /\ p_img = Image
    /\ \A i \in DOMAIN p_log : p_log[i].after = p_log[i].before

IsBinary(a) ==
    \A i \in DOMAIN a.v : a.v[i] \in (IF IsIntegerDtype(a.dtype) THEN {0, 1} ELSE {0, ONE})

\* C7: on a mask whose values are all 0 or 1 (integer or real), with any label
\* and erode=False, preparing the prepared mask gives the prepared mask again.
C7_PrepareTwiceIsPrepareOnce ==
    (Len(m_out) = 2 /\ ~m_erode /\ IsBinary(m_mask)) => m_out[2] = m_out[1]

\* An integer binary mask with zeros and ones, prepared twice for the
\* background label without erosion.
C7_BinaryMaskPreparedTwice ==
    /\ Len(m_out) = 2
    /\ ~m_erode
    /\ IsBinary(m_mask)
    /\ m_mask.dtype = "int"
    /\ ResolveLabel(m_label) = 0
    /\ \E i, j \in DOMAIN m_mask.v : m_mask.v[i] = 0 /\ m_mask.v[j] = 1
    /\ m_out[2] = m_out[1]

\* C8: for a list of tissue PVMs with non-negative values (all-zero maps
\* included) volume_fraction returns one fraction per tissue (csf, gm, wm),
\* each in [0, 1], and the fractions sum to 1.
C8_FractionsInUnitIntervalSumToOne ==
    \A i \in DOMAIN p_log :
        LET c == p_log[i]
        IN  (c.fn = "volume_fraction" /\ c.arg = "tissue" /\ Len(c.before) = 3)
            => /\ c.ret.kind = "ok"
               /\ DOMAIN c.ret.out = {"csf", "gm", "wm"}
               /\ \A k \in DOMAIN c.ret.out :
                     /\ c.ret.out[k].den > 0
                     /\ 0 <= c.ret.out[k].num
                     /\ c.ret.out[k].num <= c.ret.out[k].den
               /\ c.ret.out["csf"].num + c.ret.out["gm"].num + c.ret.out["wm"].num
                     = c.ret.out["csf"].den

\* C9: for an integer label volume and a label of the table (bg=0, csf=1,
\* gm=2, wm=3, as a number or by name), _prepare_mask with erode=False returns
\* a mask that is 1 exactly where the input equals the label, and 0 elsewhere.
C9_MaskIsOneExactlyAtLabel ==
    (Len(m_out) >= 1 /\ ~m_erode /\ m_mask.dtype = "int") =>
        \A i \in DOMAIN m_mask.v :
            m_out[1].v[i] = (IF m_mask.v[i] = ResolveLabel(m_label) THEN 1 ELSE 0)

\* art_qi2 returned from its full computation.
FullyComputed == q_pc = "returned" /\ q_hist # <<>>

\* Bin i (from 0) lies after the mode and its density is below half the modal one.
BelowHalfAfterMode(i) ==
    /\ i > q_fit.max_pos
    /\ i < Len(q_hist)
    /\ 2 * q_hist[i + 1] < q_hist[q_fit.max_pos + 1]

\* The returned value is the mean of |hist - pdf_fitted| over the bins from
\* position k on, or 1 when that mean is above 1.
GofIsMeanFrom(k) ==
    LET total == SeqSum([i \in 1..Len(q_hist) |->
                            IF i > k THEN Abs(q_hist[i] - q_pdf[i]) ELSE 0])
        bins == Len(q_hist) - k
    IN  IF total > bins
        THEN q_ret.gof.num = q_ret.gof.den
        ELSE q_ret.gof.num * bins = total * q_ret.gof.den

GofInUnitInterval == q_ret.gof.den > 0 /\ 0 <= q_ret.gof.num /\ q_ret.gof.num <= q_ret.gof.den

CutoffIsFirstCrossing ==
    /\ BelowHalfAfterMode(q_fit.t2idx)
    /\ \A i \in 0..(q_fit.t2idx - 1) : ~BelowHalfAfterMode(i)
    /\ GofIsMeanFrom(q_fit.t2idx)

\* C10 as claimed: in the full computation the cutoff is the first bin after
\* the modal bin whose density is below half the modal density, for every
\* histogram the cutoff index is greater than the mode index, the goodness of
\* fit is averaged over the bins from the cutoff on, and it lies in [0, 1].
C10_CutoffAlwaysAfterMode ==
    FullyComputed =>
        /\ q_fit.t2idx > q_fit.max_pos
        /\ CutoffIsFirstCrossing
        /\ GofInUnitInterval

\* C10 as amended: when some bin after the modal bin has a density below half
\* the modal density, the cutoff is the first such bin (so the cutoff index is
\* greater than the mode index) and the goodness of fit is averaged over the
\* bins from the cutoff on; when no bin after the mode is below half the modal
\* density, the cutoff index is 0 and every bin contributes.  In both cases
\* the returned value lies in [0, 1].
C10_CutoffAfterModeWhenCrossed ==
    FullyComputed =>
        /\ (\E i \in DOMAIN q_hist : BelowHalfAfterMode(i - 1)) =>
              (q_fit.t2idx > q_fit.max_pos /\ CutoffIsFirstCrossing)
        /\ ~(\E i \in DOMAIN q_hist : BelowHalfAfterMode(i - 1)) =>
              (q_fit.t2idx = 0 /\ GofIsMeanFrom(0))
        /\ GofInUnitInterval

\* A full computation whose mode is not the first bin and whose cutoff, after
\* the mode, leaves a positive goodness of fit.
C10_CutoffPastInnerMode ==
    /\ FullyComputed
    /\ q_fit.max_pos > 0
    /\ q_fit.t2idx > q_fit.max_pos
    /\ q_ret.gof.num > 0

====
